---- MODULE Spec2Model ----
(***************************************************************************)
(* The stage pipeline of the project orchestrator: the task and project    *)
(* rows of the database, the Celery job queue, and the handlers and jobs   *)
(* that run a stage (new_project, advance_project_stage,                   *)
(* start_pending_tasks, process_project_pipeline, auto_run_project) and    *)
(* the single agent execution (execute_agent, execute_agent_async).  A     *)
(* handler or job is cut into steps at its database commits; under Spec    *)
(* the operations on the project run one after another (a single writer    *)
(* per project at a time).  SpecExec adds the single agent executions,     *)
(* SpecConc runs stage run jobs on two workers while requests arrive,      *)
(* SpecExecConc does the same for single agent executions, and             *)
(* SpecProjects creates and advances two projects.                         *)
(***************************************************************************)
EXTENDS Integers, Sequences, FiniteSets, TLC

VARIABLES
    projects,   \* Project rows: id -> [exists, stage, status, completion_percentage, auto_run]
    tasks,      \* Task rows in creation order; the index is the task id
    queue,      \* jobs submitted with apply_async and not yet picked up by a worker
    ops,        \* the running request handler / Celery job of each thread
    ret,        \* what the last handler or job returned (or raised), until the next one starts
    agents,     \* Agent rows: id -> [status, total_executions], with the number of the agent's AgentExecution rows
    faults,     \* number of failures the environment has injected so far
    nops        \* number of requests, job submissions and jobs started so far

vars == <<projects, tasks, queue, ops, ret, agents, faults, nops>>

----------------------------------------------------------------------------
(* Bounds of the exploration *)

MaxFaults == 1      \* failures of the executor, the event sink and the job runtime
MaxQueue == 1       \* jobs waiting in the broker at one time
MaxOps == 4         \* requests, job submissions and jobs started in one behaviour

(* Program constants *)

LastStage == 6      \* stages run from 1 to LastStage
ErrMax == 500       \* str(e)[:500]

ProjectIds == {1}
AllProjectIds == {1, 2}          \* the projects of the two-project specification
Threads == {"web", "w1", "w2"}
Web == "web"
Workers == {"w1"}
ConcWorkers == {"w1", "w2"}      \* the workers of the concurrent specification

(* seed_initial_agents: the stage of each seeded agent, in insertion (id)   *)
(* order.  Agent 1 is 'Idea Processor' and agent 2 is 'Context Builder'.   *)
AgentStage == <<1, 1, 2, 2, 3, 3, 3, 3, 4, 4, 4, 5, 5, 5, 6>>
AgentIds == 1..Len(AgentStage)
NoAgent == 0
IdeaProcessor == 1
ContextBuilder == 2

(* Agent.is_active defaults to True and the seed leaves it so *)
ActiveAgents == AgentIds

RECURSIVE SortedSeq(_)
SortedSeq(S) ==
    IF S = {} THEN <<>>
    ELSE LET m == CHOOSE x \in S : \A y \in S : x <= y
         IN <<m>> \o SortedSeq(S \ {m})

(* Agent.query.filter_by(stage=s, is_active=True).all() *)
StageAgents(s) == SortedSeq({a \in ActiveAgents : AgentStage[a] = s})

(* stage_status_map.get(stage, project.status) *)
StageStatus(s, old) ==
    CASE s = 2 -> "validating"
      [] s = 3 -> "developing"
      [] s = 4 -> "marketing"
      [] s = 5 -> "operating"
      [] s = 6 -> "scaling"
      [] OTHER -> old

----------------------------------------------------------------------------
(* Task rows *)

NewTask(p, a, s, st, title) ==
    [project_id |-> p, agent_id |-> a, stage |-> s, status |-> st,
     title |-> title, error_message |-> 0,
     started_at |-> FALSE, completed_at |-> FALSE]

TaskIds == 1..Len(tasks)

(* Task.query.filter_by(project_id=p).count() *)
TotalTasks(tt, p) == Cardinality({i \in 1..Len(tt) : tt[i].project_id = p})

(* Task.query.filter_by(project_id=p, status='completed').count() *)
CompletedTasks(tt, p) ==
    Cardinality({i \in 1..Len(tt) : tt[i].project_id = p /\ tt[i].status = "completed"})

(* round((completed / total) * 100, 2), in hundredths of a percent;        *)
(* Python rounds a tie to the even neighbour                               *)
Round2(c, t) ==
    LET n == 10000 * c
        q == n \div t
        r == n % t
    IN IF 2 * r > t THEN q + 1
       ELSE IF 2 * r < t THEN q
       ELSE IF q % 2 = 0 THEN q ELSE q + 1

(* the completion percentage block: recomputed only when the project has   *)
(* a task                                                                  *)
Progress(tt, p, old) ==
    IF TotalTasks(tt, p) > 0
    THEN Round2(CompletedTasks(tt, p), TotalTasks(tt, p))
    ELSE old

(* str(e)[:500] *)
Truncate(n) == IF n > ErrMax THEN ErrMax ELSE n

(* lengths of the error text the executor reports or raises with: the     *)
(* texts explored are longer than the limit                                *)
ErrorLens == {ErrMax + 1}

(* AIProviderFactory.execute_agent returns success, returns failure, or    *)
(* raises; a failure is taken from the budget of injected failures         *)
MayFail == faults < MaxFaults

----------------------------------------------------------------------------
(* Running operations *)

Idle ==
    [kind |-> "idle", pc |-> "idle", p |-> 0, stage |-> 0, todo |-> <<>>,
     cur |-> 0, agent |-> 0, results |-> <<>>, stages |-> <<>>, ok |-> 0,
     bad |-> 0, queued |-> FALSE, stage0 |-> 0, pct0 |-> 0, ntasks0 |-> 0,
     current0 |-> TRUE, seen |-> 0]

NoRet ==
    [kind |-> "none", p |-> 0, stage |-> 0, outcome |-> "none", error |-> "",
     async |-> FALSE, agents_triggered |-> 0, results |-> <<>>,
     stages |-> <<>>, final_stage |-> 0, ok |-> 0, bad |-> 0,
     partial |-> FALSE]

AllIdle == \A t \in Threads : ops[t].pc = "idle"

(* a request, a job submission or a job start, counted against MaxOps *)
CountOp == nops < MaxOps /\ nops' = nops + 1

(* a handler or job starts: its locals, and the project as it finds it    *)
(* (stage0, pct0: the stage and the percentage; ntasks0: the number of     *)
(* task rows; current0: the percentage agrees with the task rows)          *)
Start(kind, pc, p, s) ==
    LET found == p \in AllProjectIds /\ projects[p].exists IN
    [Idle EXCEPT !.kind = kind, !.pc = pc, !.p = p, !.stage = s,
                 !.stage0 = IF found THEN projects[p].stage ELSE 0,
                 !.pct0 = IF found THEN projects[p].completion_percentage ELSE 0,
                 !.ntasks0 = Len(tasks),
                 !.current0 = IF found
                              THEN projects[p].completion_percentage =
                                      Progress(tasks, p, 0)
                              ELSE TRUE]

Init ==
    /\ projects = [p \in AllProjectIds |->
                     [exists |-> FALSE, stage |-> 0, status |-> "none",
                      completion_percentage |-> 0, auto_run |-> FALSE]]
    /\ tasks = <<>>
    /\ queue = {}
    /\ ops = [t \in Threads |-> Idle]
    /\ ret = NoRet
    /\ faults = 0
    /\ agents = [a \in AgentIds |->
                    [status |-> "idle", total_executions |-> 0, executions |-> 0]]
    /\ nops = 0

----------------------------------------------------------------------------
(* Helpers shared by the handlers *)

Finish(t, r) ==
    /\ ops' = [ops EXCEPT ![t] = Idle]
    /\ ret' = r

Job(kind, p, s) == [kind |-> kind, p |-> p, stage |-> s, agent |-> 0, task |-> 0]

(* apply_async: the broker accepts the job *)
CanSubmit(j) == j \notin queue /\ Cardinality(queue) < MaxQueue

(* the tasks of a stage, the latest created first *)
TasksOfStageLatestFirst(tt, p, s) ==
    LET ids == SortedSeq({i \in 1..Len(tt) : tt[i].project_id = p /\ tt[i].stage = s})
    IN [k \in 1..Len(ids) |-> ids[Len(ids) + 1 - k]]

(* Task.query.filter_by(project_id=p, stage=s).all() *)
TasksOfStageIn(tt, p, s) ==
    SortedSeq({i \in 1..Len(tt) : tt[i].project_id = p /\ tt[i].stage = s})

(* the tasks a handler creates for a list of agents *)
NewTasksFor(p, agentSeq, s, st) ==
    [k \in 1..Len(agentSeq) |-> NewTask(p, agentSeq[k], s, st, "agent_stage")]

(* the status written to every task of the project of task i *)
SetStatusOfProject(i, st) ==
    [k \in 1..Len(tasks) |->
        IF tasks[k].project_id = tasks[i].project_id
        THEN [tasks[k] EXCEPT !.status = st]
        ELSE tasks[k]]

SetStatus(i, st) == [tasks EXCEPT ![i].status = st]

(* ai_providers.py lines 177-200: one AgentExecution row is added for the  *)
(* agent, and total_executions is written as one more than the value the   *)
(* session loaded                                                          *)
StoreExecution(a, loaded) ==
    [agents EXCEPT ![a].total_executions = loaded + 1, ![a].executions = @ + 1]

RecordExecution(a) == StoreExecution(a, agents[a].total_executions)

(* an entry of a stage's result list; executed is FALSE where the entry    *)
(* carries execution_id None                                               *)
Outcome(agent, st, executed) == [agent |-> agent, status |-> st, executed |-> executed]

----------------------------------------------------------------------------
(* new_project: POST /projects/new *)

(* lines 293-357: the project and its two stage 1 tasks are created; then  *)
(* stage 1 is queued, or run in the request when Celery is unavailable or  *)
(* auto_run is set                                                         *)
NewProjectBegin(p, auto) ==
    /\ ops[Web].pc = "idle"
    /\ AllIdle
    /\ CountOp
    /\ UNCHANGED agents
    /\ ~projects[p].exists
    /\ projects' = [projects EXCEPT ![p] =
                      [exists |-> TRUE, stage |-> 1, status |-> "idea",
                       completion_percentage |-> 0, auto_run |-> auto]]
    /\ tasks' = tasks \o
          <<NewTask(p, IdeaProcessor, 1, "pending", "Process Initial Idea"),
            NewTask(p, ContextBuilder, 1, "pending", "Build Project Context")>>
    /\ UNCHANGED faults
    /\ IF auto
       THEN /\ ops' = [ops EXCEPT ![Web] = Start("new_project", "npa_stage", p, 1)]
            /\ ret' = NoRet
            /\ UNCHANGED queue
       ELSE \/ /\ CanSubmit(Job("pipeline", p, 1))
               /\ queue' = queue \cup {Job("pipeline", p, 1)}
               /\ Finish(Web, [NoRet EXCEPT !.kind = "new_project", !.p = p,
                                            !.outcome = "ok", !.async = TRUE])
            \/ /\ ops' = [ops EXCEPT ![Web] =
                            [Start("new_project", "np_sync", p, 1)
                               EXCEPT !.todo = StageAgents(1)]]
               /\ ret' = NoRet
               /\ UNCHANGED queue

NewProjectReturn(p) ==
    [NoRet EXCEPT !.kind = "new_project", !.p = p, !.outcome = "ok"]

(* lines 441-476: stage 1 run in the request, one agent at a time *)
NewProjectSyncNext ==
    LET o == ops[Web] IN
    /\ o.pc = "np_sync"
    /\ UNCHANGED <<nops, agents>>
    /\ UNCHANGED <<queue, faults>>
    /\ IF o.todo = <<>>
       THEN /\ projects' = [projects EXCEPT ![o.p].completion_percentage =
                              Progress(tasks, o.p, @)]
            /\ UNCHANGED tasks
            /\ Finish(Web, NewProjectReturn(o.p))
       ELSE LET a == Head(o.todo)
                found == {i \in TaskIds : tasks[i].project_id = o.p /\ tasks[i].agent_id = a}
            IN IF found = {}
               THEN /\ ops' = [ops EXCEPT ![Web].todo = Tail(o.todo)]
                    /\ UNCHANGED <<projects, tasks, ret>>
               ELSE LET i == CHOOSE x \in found : \A y \in found : x <= y
                    IN /\ tasks' = SetStatus(i, "processing")
                       /\ ops' = [ops EXCEPT ![Web].todo = Tail(o.todo),
                                             ![Web].cur = i,
                                             ![Web].pc = "np_sync_exec"]
                       /\ UNCHANGED <<projects, ret>>

NewProjectSyncExec ==
    LET o == ops[Web] IN
    /\ o.pc = "np_sync_exec"
    /\ UNCHANGED nops
    /\ UNCHANGED <<queue, projects>>
    /\ \/ /\ tasks' = SetStatus(o.cur, "completed")
          /\ agents' = RecordExecution(tasks[o.cur].agent_id)
          /\ ops' = [ops EXCEPT ![Web].pc = "np_sync"]
          /\ UNCHANGED <<ret, faults>>
       \/ /\ MayFail
          /\ faults' = faults + 1
          /\ \E len \in ErrorLens :
               tasks' = [tasks EXCEPT ![o.cur].status = "failed",
                                      ![o.cur].error_message = len]
          /\ ops' = [ops EXCEPT ![Web].pc = "np_sync"]
          /\ agents' = RecordExecution(tasks[o.cur].agent_id)
          /\ UNCHANGED ret
       \/ /\ MayFail                      \* execute_agent raises: line 478
          /\ faults' = faults + 1
          /\ UNCHANGED <<tasks, agents>>
          /\ Finish(Web, NewProjectReturn(o.p))

(* lines 369-396: the next stage of the auto-run loop, its missing tasks   *)
(* created; lines 431-438 after the last stage                             *)
NewProjectAutoStage ==
    LET o == ops[Web] IN
    /\ o.pc = "npa_stage"
    /\ UNCHANGED <<nops, agents>>
    /\ UNCHANGED <<queue, faults>>
    /\ IF o.stage > LastStage
       THEN /\ projects' = [projects EXCEPT ![o.p].completion_percentage =
                              Progress(tasks, o.p, @)]
            /\ UNCHANGED tasks
            /\ Finish(Web, NewProjectReturn(o.p))
       ELSE IF StageAgents(o.stage) = <<>>
       THEN /\ ops' = [ops EXCEPT ![Web].stage = o.stage + 1]
            /\ UNCHANGED <<projects, tasks, ret>>
       ELSE LET missing == SortedSeq({a \in ActiveAgents :
                              /\ AgentStage[a] = o.stage
                              /\ ~\E i \in TaskIds :
                                     /\ tasks[i].project_id = o.p
                                     /\ tasks[i].agent_id = a
                                     /\ tasks[i].stage = o.stage})
                tt == tasks \o NewTasksFor(o.p, missing, o.stage, "pending")
            IN /\ tasks' = tt
               /\ ops' = [ops EXCEPT ![Web].todo = TasksOfStageIn(tt, o.p, o.stage),
                                     ![Web].pc = "npa_task"]
               /\ UNCHANGED <<projects, ret>>

(* lines 404-408 and 427-429 *)
NewProjectAutoTask ==
    LET o == ops[Web] IN
    /\ o.pc = "npa_task"
    /\ UNCHANGED <<nops, agents>>
    /\ UNCHANGED <<queue, faults, ret>>
    /\ IF o.todo = <<>>
       THEN /\ projects' = [projects EXCEPT ![o.p].stage = o.stage]
            /\ ops' = [ops EXCEPT ![Web].stage = o.stage + 1,
                                  ![Web].pc = "npa_stage"]
            /\ UNCHANGED tasks
       ELSE LET i == Head(o.todo) IN
            IF tasks[i].agent_id # NoAgent
            THEN /\ tasks' = SetStatus(i, "processing")
                 /\ ops' = [ops EXCEPT ![Web].todo = Tail(o.todo),
                                       ![Web].cur = i,
                                       ![Web].pc = "npa_exec"]
                 /\ UNCHANGED projects
            ELSE /\ ops' = [ops EXCEPT ![Web].todo = Tail(o.todo)]
                 /\ UNCHANGED <<projects, tasks>>

(* lines 410-425 *)
NewProjectAutoExec ==
    LET o == ops[Web] IN
    /\ o.pc = "npa_exec"
    /\ UNCHANGED nops
    /\ UNCHANGED <<queue, projects>>
    /\ \/ /\ tasks' = SetStatus(o.cur, "completed")
          /\ agents' = RecordExecution(tasks[o.cur].agent_id)
          /\ ops' = [ops EXCEPT ![Web].pc = "npa_task"]
          /\ UNCHANGED <<ret, faults>>
       \/ /\ MayFail
          /\ faults' = faults + 1
          /\ \E len \in ErrorLens :
               tasks' = [tasks EXCEPT ![o.cur].status = "failed",
                                      ![o.cur].error_message = len]
          /\ ops' = [ops EXCEPT ![Web].pc = "npa_task"]
          /\ agents' = RecordExecution(tasks[o.cur].agent_id)
          /\ UNCHANGED ret
       \/ /\ MayFail                      \* execute_agent raises: line 478
          /\ faults' = faults + 1
          /\ UNCHANGED <<tasks, agents>>
          /\ Finish(Web, NewProjectReturn(o.p))

----------------------------------------------------------------------------
(* advance_project_stage: POST /api/projects/<id>/advance *)

(* the stage guard with the final stage let through *)
UpToFinalStage(s) == s <= LastStage

(* line 641 *)
BelowFinalStage(s) == s < LastStage

AdvanceSyncStart(p, next, queued) ==
    /\ projects' = [projects EXCEPT ![p].stage = next,
                                    ![p].status = StageStatus(next, @)]
    /\ ops' = [ops EXCEPT ![Web] =
                 [Start("advance", "adv_agent", p, next)
                    EXCEPT !.todo = StageAgents(next), !.queued = queued]]
    /\ ret' = NoRet
    /\ UNCHANGED tasks

(* lines 636-687: the stage guard, then the queued path (probe, submit,    *)
(* emit, return) and, when any step of it raises, the start of the         *)
(* synchronous path                                                        *)
AdvanceRequest(p) ==
    /\ ops[Web].pc = "idle"
    /\ CountOp
    /\ UNCHANGED agents
    /\ projects[p].exists
    /\ IF BelowFinalStage(projects[p].stage)
       THEN LET next == projects[p].stage + 1
                job == Job("pipeline", p, next)
            IN \/ /\ CanSubmit(job)          \* queued, async = True
                  /\ queue' = queue \cup {job}
                  /\ Finish(Web, [NoRet EXCEPT !.kind = "advance", !.p = p,
                                               !.stage = next, !.outcome = "ok",
                                               !.async = TRUE])
                  /\ UNCHANGED <<projects, tasks, faults>>
               \/ /\ AdvanceSyncStart(p, next, FALSE)   \* ping or apply_async raises
                  /\ UNCHANGED <<queue, faults>>
               \/ /\ CanSubmit(job)          \* socketio.emit raises after the submit
                  /\ MayFail
                  /\ faults' = faults + 1
                  /\ queue' = queue \cup {job}
                  /\ AdvanceSyncStart(p, next, TRUE)
       ELSE /\ Finish(Web, [NoRet EXCEPT !.kind = "advance", !.p = p,
                                         !.outcome = "error",
                                         !.error = "Project already at final stage"])
            /\ UNCHANGED <<projects, tasks, queue, faults>>

(* the request when no other handler or job is running *)
AdvanceBegin(p) == AllIdle /\ AdvanceRequest(p)

AdvanceReturn(o, outcome) ==
    [NoRet EXCEPT !.kind = "advance", !.p = o.p, !.stage = o.stage,
                  !.outcome = outcome, !.ok = o.ok, !.bad = o.bad]

(* lines 696-707: the next agent's task is created as processing;          *)
(* lines 745-764 after the last agent                                      *)
AdvanceAgent ==
    LET o == ops[Web] IN
    /\ o.pc = "adv_agent"
    /\ UNCHANGED <<nops, agents>>
    /\ UNCHANGED queue
    /\ IF o.todo = <<>>
       THEN /\ projects' = [projects EXCEPT ![o.p].completion_percentage =
                              Progress(tasks, o.p, @)]
            /\ UNCHANGED tasks
            /\ \/ /\ Finish(Web, AdvanceReturn(o, "ok"))
                  /\ UNCHANGED faults
               \/ /\ MayFail                 \* the closing socketio.emit raises
                  /\ faults' = faults + 1
                  /\ Finish(Web, AdvanceReturn(o, "raised"))
       ELSE /\ tasks' = Append(tasks, NewTask(o.p, Head(o.todo), o.stage,
                                              "processing", "agent_stage"))
            /\ ops' = [ops EXCEPT ![Web].todo = Tail(o.todo),
                                  ![Web].cur = Len(tasks) + 1,
                                  ![Web].pc = "adv_exec"]
            /\ UNCHANGED <<projects, ret, faults>>

(* lines 709-743 *)
AdvanceExec ==
    LET o == ops[Web] IN
    /\ o.pc = "adv_exec"
    /\ UNCHANGED nops
    /\ UNCHANGED <<queue, projects>>
    /\ \/ /\ tasks' = SetStatus(o.cur, "completed")
          /\ agents' = RecordExecution(tasks[o.cur].agent_id)
          /\ \/ /\ ops' = [ops EXCEPT ![Web].ok = o.ok + 1, ![Web].pc = "adv_agent"]
                /\ UNCHANGED <<ret, faults>>
             \/ /\ MayFail                   \* socketio.emit('task_completed') raises
                /\ faults' = faults + 1
                /\ Finish(Web, AdvanceReturn([o EXCEPT !.ok = o.ok + 1], "raised"))
       \/ /\ MayFail
          /\ faults' = faults + 1
          /\ \E len \in ErrorLens :
               tasks' = [tasks EXCEPT ![o.cur].status = "failed",
                                      ![o.cur].error_message = len]
          /\ agents' = RecordExecution(tasks[o.cur].agent_id)
          /\ ops' = [ops EXCEPT ![Web].bad = o.bad + 1, ![Web].pc = "adv_agent"]
          /\ UNCHANGED ret
       \/ /\ MayFail                         \* execute_agent raises: line 729
          /\ faults' = faults + 1
          /\ \E len \in ErrorLens :
               tasks' = [tasks EXCEPT ![o.cur].status = "failed",
                                      ![o.cur].error_message = Truncate(len)]
          /\ ops' = [ops EXCEPT ![Web].bad = o.bad + 1, ![Web].pc = "adv_agent"]
          /\ UNCHANGED <<ret, agents>>

----------------------------------------------------------------------------
(* start_pending_tasks: POST /api/projects/<id>/start-tasks *)

(* lines 772-802; sel = 0 stands for a request without a stage *)
StartTasksBegin(p, sel) ==
    /\ ops[Web].pc = "idle"
    /\ AllIdle
    /\ CountOp
    /\ UNCHANGED agents
    /\ projects[p].exists
    /\ UNCHANGED <<projects, tasks, queue, faults>>
    /\ LET pending == SortedSeq({i \in TaskIds :
                         /\ tasks[i].project_id = p
                         /\ tasks[i].status = "pending"
                         /\ (sel # 0 => tasks[i].stage = sel)})
           processing == {i \in TaskIds : tasks[i].project_id = p
                                          /\ tasks[i].status = "processing"}
       IN IF pending = <<>>
          THEN Finish(Web, [NoRet EXCEPT !.kind = "start_tasks", !.p = p,
                              !.outcome = "error",
                              !.error = IF processing # {}
                                        THEN "task(s) are already processing"
                                        ELSE "No pending tasks found"])
          ELSE /\ ops' = [ops EXCEPT ![Web] =
                            [Start("start_tasks", "spt_task", p, 0)
                               EXCEPT !.todo = pending]]
               /\ ret' = NoRet

(* lines 808-813 and 845-860 *)
StartTasksNext ==
    LET o == ops[Web] IN
    /\ o.pc = "spt_task"
    /\ UNCHANGED <<nops, agents>>
    /\ UNCHANGED <<queue, faults>>
    /\ IF o.todo = <<>>
       THEN IF o.ok > 0
            THEN /\ projects' = [projects EXCEPT ![o.p].completion_percentage =
                                   Progress(tasks, o.p, @)]
                 /\ UNCHANGED tasks
                 /\ Finish(Web, [NoRet EXCEPT !.kind = "start_tasks", !.p = o.p,
                                   !.outcome = "ok", !.ok = o.ok])
            ELSE /\ UNCHANGED <<projects, tasks>>
                 /\ Finish(Web, [NoRet EXCEPT !.kind = "start_tasks", !.p = o.p,
                                   !.outcome = "error",
                                   !.error = "Failed to start any tasks"])
       ELSE LET i == Head(o.todo) IN
            IF tasks[i].agent_id # NoAgent
            THEN /\ tasks' = SetStatus(i, "processing")
                 /\ ops' = [ops EXCEPT ![Web].todo = Tail(o.todo),
                                       ![Web].cur = i,
                                       ![Web].pc = "spt_exec"]
                 /\ UNCHANGED <<projects, ret>>
            ELSE /\ ops' = [ops EXCEPT ![Web].todo = Tail(o.todo)]
                 /\ UNCHANGED <<projects, tasks, ret>>

(* lines 815-843 *)
StartTasksExec ==
    LET o == ops[Web] IN
    /\ o.pc = "spt_exec"
    /\ UNCHANGED nops
    /\ UNCHANGED <<queue, projects, ret>>
    /\ \/ /\ tasks' = SetStatus(o.cur, "completed")
          /\ agents' = RecordExecution(tasks[o.cur].agent_id)
          /\ ops' = [ops EXCEPT ![Web].ok = o.ok + 1, ![Web].pc = "spt_task"]
          /\ UNCHANGED faults
       \/ /\ MayFail          \* the emit after executed_count += 1 raises: line 839
          /\ faults' = faults + 1
          /\ \E len \in ErrorLens :
               tasks' = [tasks EXCEPT ![o.cur].status = "failed",
                                      ![o.cur].error_message = len]
          /\ agents' = RecordExecution(tasks[o.cur].agent_id)
          /\ ops' = [ops EXCEPT ![Web].ok = o.ok + 1, ![Web].pc = "spt_task"]
       \/ /\ MayFail          \* execute_agent reports failure or raises
          /\ faults' = faults + 1
          /\ \E len \in ErrorLens :
               tasks' = [tasks EXCEPT ![o.cur].status = "failed",
                                      ![o.cur].error_message = len]
          /\ \/ agents' = RecordExecution(tasks[o.cur].agent_id)
             \/ UNCHANGED agents
          /\ ops' = [ops EXCEPT ![Web].pc = "spt_task"]

----------------------------------------------------------------------------
(* emit_task_update *)

(* line 42: def emit_task_update(task_id, status, data) *)
EmitTaskUpdateParams == {"task_id", "status", "data"}

(* lines 206-215: emit_task_update(task.id, 'processing', {...},           *)
(*                                 user_id=user_id, project_id=project_id) *)
PipelineEmitArgs == {"task_id", "status", "data", "user_id", "project_id"}

(* a call binds when every argument it passes is a parameter of the        *)
(* function; otherwise Python raises TypeError at the call                 *)
Accepts(params, args) == args \subseteq params

----------------------------------------------------------------------------
(* process_project_pipeline: the Celery job of one stage *)

PipelineReturn(o, outcome) ==
    [NoRet EXCEPT !.kind = "pipeline", !.p = o.p, !.stage = o.stage,
                  !.outcome = outcome,
                  !.agents_triggered = Len(o.results), !.results = o.results]

(* the project update with the progress set back to zero for the stage *)
PipelineProjectRestart(pr, s) ==
    [pr EXCEPT !.stage = s, !.status = StageStatus(s, @),
               !.completion_percentage = 0]

(* lines 301-314: project.stage = stage, and the status the map gives it  *)
PipelineProjectUpdate(pr, s) ==
    [pr EXCEPT !.stage = s, !.status = StageStatus(s, @)]

(* lines 165-192: the project is loaded and the stage's tasks are looked   *)
(* up, or created when the stage has none                                  *)
PipelineBegin(w, j) ==
    /\ ops[w].pc = "idle"
    /\ AllIdle
    /\ CountOp
    /\ UNCHANGED agents
    /\ j \in queue
    /\ j.kind = "pipeline"
    /\ queue' = queue \ {j}
    /\ UNCHANGED <<projects, faults>>
    /\ IF ~projects[j.p].exists
       THEN /\ Finish(w, [NoRet EXCEPT !.kind = "pipeline", !.p = j.p,
                            !.stage = j.stage, !.outcome = "raised",
                            !.error = "Project not found"])
            /\ UNCHANGED tasks
       ELSE LET existing == TasksOfStageIn(tasks, j.p, j.stage)
                tt == IF existing # <<>> THEN tasks
                      ELSE tasks \o NewTasksFor(j.p, StageAgents(j.stage),
                                                j.stage, "pending")
            IN /\ tasks' = tt
               /\ ops' = [ops EXCEPT ![w] =
                            [Start("pipeline", "pp_task", j.p, j.stage)
                               EXCEPT !.todo = TasksOfStageIn(tt, j.p, j.stage)]]
               /\ ret' = NoRet

(* lines 193-321: one iteration of the task loop, or the project update    *)
(* and the return after the last task                                      *)
PipelineTask(w) ==
    LET o == ops[w] IN
    /\ o.pc = "pp_task"
    /\ UNCHANGED nops
    /\ UNCHANGED queue
    /\ IF o.todo = <<>>
       THEN /\ projects' = [projects EXCEPT ![o.p] = PipelineProjectUpdate(@, o.stage)]
            /\ Finish(w, PipelineReturn(o, "ok"))
            /\ UNCHANGED <<tasks, faults, agents>>
       ELSE LET i == Head(o.todo) IN
            IF tasks[i].agent_id = NoAgent \/ tasks[i].status = "completed"
            THEN /\ ops' = [ops EXCEPT ![w].todo = Tail(o.todo)]
                 /\ UNCHANGED <<projects, tasks, ret, faults, agents>>
            ELSE IF ~Accepts(EmitTaskUpdateParams, PipelineEmitArgs)
            THEN /\ Finish(w, [PipelineReturn(o, "raised") EXCEPT !.error = "TypeError"])
                 /\ UNCHANGED <<projects, tasks, faults, agents>>
            ELSE /\ UNCHANGED <<projects, ret>>      \* lines 217-299
                 /\ \/ /\ tasks' = [tasks EXCEPT ![i].status = "completed",
                                                 ![i].started_at = TRUE,
                                                 ![i].completed_at = TRUE]
                       /\ ops' = [ops EXCEPT ![w].todo = Tail(o.todo),
                                    ![w].results = Append(o.results,
                                        Outcome(tasks[i].agent_id, "completed", TRUE))]
                       /\ agents' = RecordExecution(tasks[i].agent_id)
                       /\ UNCHANGED faults
                    \/ /\ MayFail
                       /\ faults' = faults + 1
                       /\ \/ agents' = RecordExecution(tasks[i].agent_id)
                          \/ UNCHANGED agents
                       /\ \E len \in ErrorLens :
                            tasks' = [tasks EXCEPT ![i].status = "failed",
                                                   ![i].started_at = TRUE,
                                                   ![i].error_message = len]
                       /\ ops' = [ops EXCEPT ![w].todo = Tail(o.todo),
                                    ![w].results = Append(o.results,
                                        Outcome(tasks[i].agent_id, "failed", FALSE))]

----------------------------------------------------------------------------
(* auto_run_project: the Celery job that runs all remaining stages *)

StageEntry(s, st, res) ==
    [stage |-> s, status |-> st, agents_triggered |-> Len(res), results |-> res]

AutoRunReturn(o, stages) ==
    [NoRet EXCEPT !.kind = "auto_run", !.p = o.p, !.outcome = "ok",
                  !.final_stage = projects[o.p].stage, !.stages = stages]

(* the job is submitted: auto_run_project.delay(project_id, user_id) *)
SubmitAutoRun(p) ==
    /\ CanSubmit(Job("auto_run", p, 0))
    /\ CountOp
    /\ UNCHANGED agents
    /\ queue' = queue \cup {Job("auto_run", p, 0)}
    /\ UNCHANGED <<projects, tasks, ops, ret, faults>>

(* lines 435-440 *)
AutoRunBegin(w, j) ==
    /\ ops[w].pc = "idle"
    /\ AllIdle
    /\ CountOp
    /\ UNCHANGED agents
    /\ j \in queue
    /\ j.kind = "auto_run"
    /\ queue' = queue \ {j}
    /\ UNCHANGED <<projects, tasks, faults>>
    /\ IF ~projects[j.p].exists
       THEN Finish(w, [NoRet EXCEPT !.kind = "auto_run", !.p = j.p,
                         !.outcome = "error",
                         !.error = "Project not found or access denied"])
       ELSE /\ ops' = [ops EXCEPT ![w] = Start("auto_run", "ar_stage", j.p, 1)]
            /\ ret' = NoRet

(* lines 443-476 and 578-583: the head of the stage loop *)
AutoRunStage(w) ==
    LET o == ops[w] IN
    /\ o.pc = "ar_stage"
    /\ UNCHANGED <<nops, agents>>
    /\ UNCHANGED queue
    /\ IF o.stage > LastStage
       THEN /\ Finish(w, AutoRunReturn(o, o.stages))
            /\ UNCHANGED <<projects, tasks, faults>>
       ELSE IF projects[o.p].stage >= o.stage
       THEN /\ ops' = [ops EXCEPT ![w].stage = o.stage + 1]
            /\ UNCHANGED <<projects, tasks, ret, faults>>
       ELSE /\ projects' = [projects EXCEPT ![o.p].stage = o.stage]
            /\ \/ LET existing == TasksOfStageIn(tasks, o.p, o.stage)
                      tt == IF existing # <<>> THEN tasks
                            ELSE tasks \o NewTasksFor(o.p, StageAgents(o.stage),
                                                      o.stage, "pending")
                  IN /\ tasks' = tt
                     /\ ops' = [ops EXCEPT ![w].todo = TasksOfStageIn(tt, o.p, o.stage),
                                           ![w].results = <<>>,
                                           ![w].pc = "ar_task"]
                     /\ UNCHANGED <<ret, faults>>
               \/ /\ MayFail              \* the task query or its commit raises: line 570
                  /\ faults' = faults + 1
                  /\ UNCHANGED tasks
                  /\ ops' = [ops EXCEPT ![w] = Idle]
                  /\ ret' = [AutoRunReturn(o, Append(o.stages, StageEntry(o.stage, "failed", <<>>)))
                               EXCEPT !.final_stage = o.stage]

(* the stage loop without the test for completed tasks *)
AutoRunSkipsNone(task) == FALSE

(* lines 485-491: a task that is already completed is not run again *)
AutoRunSkips(task) == task.status = "completed"

(* lines 479-499 and 540-563 *)
AutoRunTask(w) ==
    LET o == ops[w] IN
    /\ o.pc = "ar_task"
    /\ UNCHANGED <<nops, agents>>
    /\ UNCHANGED <<queue, faults>>
    /\ IF o.todo = <<>>
       THEN LET stages == Append(o.stages, StageEntry(o.stage, "completed", o.results)) IN
            /\ projects' = [projects EXCEPT ![o.p].status = StageStatus(o.stage, @)]
            /\ UNCHANGED tasks
            /\ IF o.stage < LastStage
               THEN /\ ops' = [ops EXCEPT ![w].stages = stages, ![w].pc = "ar_sleep"]
                    /\ UNCHANGED ret
               ELSE Finish(w, AutoRunReturn(o, stages))
       ELSE LET i == Head(o.todo) IN
            /\ UNCHANGED <<projects, ret>>
            /\ IF tasks[i].agent_id = NoAgent
               THEN /\ ops' = [ops EXCEPT ![w].todo = Tail(o.todo)]
                    /\ UNCHANGED tasks
               ELSE IF AutoRunSkips(tasks[i])
               THEN /\ ops' = [ops EXCEPT ![w].todo = Tail(o.todo),
                                 ![w].results = Append(o.results,
                                     Outcome(tasks[i].agent_id, "completed", FALSE))]
                    /\ UNCHANGED tasks
               ELSE /\ tasks' = [tasks EXCEPT ![i].status = "processing",
                                              ![i].started_at = TRUE]
                    /\ ops' = [ops EXCEPT ![w].todo = Tail(o.todo),
                                          ![w].cur = i,
                                          ![w].pc = "ar_exec"]

(* lines 501-538 *)
AutoRunExec(w) ==
    LET o == ops[w]
        agent == tasks[o.cur].agent_id
    IN
    /\ o.pc = "ar_exec"
    /\ UNCHANGED nops
    /\ UNCHANGED <<queue, projects, ret>>
    /\ \/ /\ tasks' = [tasks EXCEPT ![o.cur].status = "completed",
                                    ![o.cur].completed_at = TRUE]
          /\ ops' = [ops EXCEPT ![w].results = Append(o.results, Outcome(agent, "completed", TRUE)),
                                ![w].pc = "ar_task"]
          /\ agents' = RecordExecution(agent)
          /\ UNCHANGED faults
       \/ /\ MayFail                      \* a failure result, or an exception: line 529
          /\ faults' = faults + 1
          /\ \/ agents' = RecordExecution(agent)
             \/ UNCHANGED agents
          /\ \E len \in ErrorLens :
               tasks' = [tasks EXCEPT ![o.cur].status = "failed",
                                      ![o.cur].error_message = len]
          /\ ops' = [ops EXCEPT ![w].results = Append(o.results, Outcome(agent, "failed", FALSE)),
                                ![w].pc = "ar_task"]

(* line 27: task_soft_time_limit, in seconds; line 568: time.sleep(600)    *)
(* between two stages                                                      *)
SoftTimeLimit == 570

InterStageDelay == 600

(* lines 565-576: time.sleep(600) returns (a worker pool that does not     *)
(* enforce time limits), or the soft time limit raises                     *)
(* SoftTimeLimitExceeded inside the sleep, which the except of line 570    *)
(* records as a failure of the stage before the loop is left               *)
AutoRunSleep(w) ==
    LET o == ops[w] IN
    /\ o.pc = "ar_sleep"
    /\ UNCHANGED <<nops, agents>>
    /\ UNCHANGED <<queue, projects, tasks, faults>>
    /\ \/ /\ ops' = [ops EXCEPT ![w].stage = o.stage + 1, ![w].pc = "ar_stage"]
          /\ UNCHANGED ret
       \/ /\ InterStageDelay > SoftTimeLimit
          /\ Finish(w, AutoRunReturn(o, Append(o.stages, StageEntry(o.stage, "failed", <<>>))))

----------------------------------------------------------------------------
(* execute_agent: POST /agents/<id>/execute, and the Celery job            *)
(* execute_agent_async it submits                                          *)

NoTask == 0
NoProject == 0

(* str(e) of the TypeError of line 131:                                    *)
(* "emit_task_update() got an unexpected keyword argument 'user_id'"       *)
TypeErrorLen == 63

(* the requests explored: a task of the project with the agent bound to    *)
(* it, or the first agent with no task and no project                      *)
ExecuteInputs ==
    {<<tasks[i].agent_id, i, tasks[i].project_id>> :
        i \in {k \in TaskIds : tasks[k].agent_id # NoAgent}}
    \cup {<<IdeaProcessor, NoTask, NoProject>>}

ExecJob(a, tid, p) ==
    [kind |-> "exec", p |-> p, stage |-> 0, agent |-> a, task |-> tid]

(* app.py lines 527-583: the job is submitted and the started event is     *)
(* emitted, or (async = false) the executor is called in the request       *)
ExecuteAgentSubmit(a, tid, p) ==
    /\ ops[Web].pc = "idle"
    /\ CountOp
    /\ UNCHANGED <<projects, tasks, ops>>
    /\ \/ /\ CanSubmit(ExecJob(a, tid, p))
          /\ UNCHANGED agents
          /\ queue' = queue \cup {ExecJob(a, tid, p)}
          /\ \/ /\ ret' = [NoRet EXCEPT !.kind = "execute", !.p = p,
                                        !.outcome = "ok", !.async = TRUE]
                /\ UNCHANGED faults
             \/ /\ MayFail               \* socketio.emit('agent_started') raises
                /\ faults' = faults + 1
                /\ ret' = [NoRet EXCEPT !.kind = "execute", !.p = p,
                                        !.outcome = "raised"]
       \/ /\ UNCHANGED <<queue, faults>>
          /\ agents' = RecordExecution(a)
          /\ ret' = [NoRet EXCEPT !.kind = "execute", !.p = p, !.outcome = "ok"]

(* the request when no other handler or job is running *)
ExecuteAgentRequest(a, tid, p) == AllIdle /\ ExecuteAgentSubmit(a, tid, p)

(* lines 135-152: the handler of the job's try block *)
ExecAsyncFailed(w, len) ==
    LET o == ops[w] IN
    /\ agents' = [agents EXCEPT ![o.agent].status = "error"]
    /\ tasks' = IF o.cur # NoTask
                THEN [tasks EXCEPT ![o.cur].status = "failed",
                                   ![o.cur].error_message = Truncate(len)]
                ELSE tasks
    /\ Finish(w, [NoRet EXCEPT !.kind = "exec", !.p = o.p, !.outcome = "raised",
                               !.ok = o.ok, !.bad = o.bad])

(* lines 76-83: the agent is loaded and set running *)
ExecAsyncStart(w, j) ==
    /\ ops[w].pc = "idle"
    /\ CountOp
    /\ j \in queue
    /\ j.kind = "exec"
    /\ queue' = queue \ {j}
    /\ agents' = [agents EXCEPT ![j.agent].status = "running"]
    /\ ops' = [ops EXCEPT ![w] =
                 [Start("exec", "ea_task", j.p, 0)
                    EXCEPT !.agent = j.agent, !.cur = j.task]]
    /\ ret' = NoRet
    /\ UNCHANGED <<projects, tasks, faults>>

(* the job picked up when no other handler or job is running *)
ExecAsyncBegin(w, j) == AllIdle /\ ExecAsyncStart(w, j)

(* lines 85-91: the task, when one is given, is set processing *)
ExecAsyncTask(w) ==
    LET o == ops[w] IN
    /\ o.pc = "ea_task"
    /\ tasks' = IF o.cur # NoTask
                THEN [tasks EXCEPT ![o.cur].status = "processing",
                                   ![o.cur].started_at = TRUE]
                ELSE tasks
    /\ ops' = [ops EXCEPT ![w].pc = "ea_exec"]
    /\ UNCHANGED <<projects, queue, ret, agents, faults, nops>>

(* lines 93-128: the executor returns or raises; on success the task is    *)
(* completed; the progress is recomputed and the agent is set idle.        *)
(* loaded is the total_executions the job's session holds for the agent    *)
ExecAsyncResult(w, loaded) ==
    LET o == ops[w]
        done == IF o.cur # NoTask
                THEN [tasks EXCEPT ![o.cur].status = "completed",
                                   ![o.cur].completed_at = TRUE]
                ELSE tasks
    IN
    /\ UNCHANGED <<queue, nops>>
    /\ \/ /\ tasks' = done
          /\ projects' = IF o.p # NoProject
                         THEN [projects EXCEPT ![o.p].completion_percentage =
                                 Progress(done, o.p, @)]
                         ELSE projects
          /\ agents' = [StoreExecution(o.agent, loaded) EXCEPT ![o.agent].status = "idle"]
          /\ ops' = [ops EXCEPT ![w].ok = 1, ![w].pc = "ea_emit"]
          /\ UNCHANGED <<ret, faults>>
       \/ /\ MayFail                     \* the result has success = False
          /\ faults' = faults + 1
          /\ projects' = IF o.p # NoProject
                         THEN [projects EXCEPT ![o.p].completion_percentage =
                                 Progress(tasks, o.p, @)]
                         ELSE projects
          /\ agents' = [StoreExecution(o.agent, loaded) EXCEPT ![o.agent].status = "idle"]
          /\ ops' = [ops EXCEPT ![w].bad = 1, ![w].pc = "ea_emit"]
          /\ UNCHANGED <<tasks, ret>>
       \/ /\ MayFail                     \* the executor raises
          /\ faults' = faults + 1
          /\ UNCHANGED projects
          /\ \E len \in ErrorLens : ExecAsyncFailed(w, len)

(* the executor call of a job that no other execution overlaps *)
ExecAsyncExec(w) ==
    /\ ops[w].pc = "ea_exec"
    /\ ExecAsyncResult(w, agents[ops[w].agent].total_executions)

(* ai_providers.py lines 147-171: the job's session loads the agent row    *)
(* and the provider is called                                              *)
ExecAsyncLoad(w) ==
    /\ ops[w].pc = "ea_exec"
    /\ ops' = [ops EXCEPT ![w].seen = agents[ops[w].agent].total_executions,
                          ![w].pc = "ea_generate"]
    /\ UNCHANGED <<projects, tasks, queue, ret, agents, faults, nops>>

(* ai_providers.py lines 173-210 and lines 102-128: the provider has       *)
(* answered                                                                *)
ExecAsyncStore(w) ==
    /\ ops[w].pc = "ea_generate"
    /\ ExecAsyncResult(w, ops[w].seen)

(* line 131: emit_task_update(self.request.id, 'completed', result,        *)
(*                            user_id=user_id, project_id=project_id)      *)
ExecEmitArgs == {"task_id", "status", "data", "user_id", "project_id"}

(* lines 131-133: the completed event, then the result is returned *)
ExecAsyncEmit(w) ==
    LET o == ops[w] IN
    /\ o.pc = "ea_emit"
    /\ UNCHANGED <<projects, queue, faults, nops>>
    /\ IF Accepts(EmitTaskUpdateParams, ExecEmitArgs)
       THEN /\ Finish(w, [NoRet EXCEPT !.kind = "exec", !.p = o.p,
                                       !.outcome = "ok", !.ok = o.ok, !.bad = o.bad])
            /\ UNCHANGED <<tasks, agents>>
       ELSE ExecAsyncFailed(w, TypeErrorLen)

----------------------------------------------------------------------------
(* The operations on a project run one after another: a handler or job     *)
(* starts when no other is running.                                        *)

Next ==
    \/ \E p \in ProjectIds, auto \in BOOLEAN : NewProjectBegin(p, auto)
    \/ NewProjectSyncNext
    \/ NewProjectSyncExec
    \/ NewProjectAutoStage
    \/ NewProjectAutoTask
    \/ NewProjectAutoExec
    \/ \E p \in ProjectIds : AdvanceBegin(p)
    \/ AdvanceAgent
    \/ AdvanceExec
    \/ \E p \in ProjectIds, sel \in 0..LastStage : StartTasksBegin(p, sel)
    \/ StartTasksNext
    \/ StartTasksExec
    \/ \E w \in Workers, j \in queue : PipelineBegin(w, j)
    \/ \E w \in Workers : PipelineTask(w)
    \/ \E p \in ProjectIds : SubmitAutoRun(p)
    \/ \E w \in Workers, j \in queue : AutoRunBegin(w, j)
    \/ \E w \in Workers : AutoRunStage(w)
    \/ \E w \in Workers : AutoRunTask(w)
    \/ \E w \in Workers : AutoRunExec(w)
    \/ \E w \in Workers : AutoRunSleep(w)

Spec == Init /\ [][Next]_vars

(* The stage pipeline together with single agent executions *)
NextExec ==
    \/ Next
    \/ \E x \in ExecuteInputs : ExecuteAgentRequest(x[1], x[2], x[3])
    \/ \E w \in Workers, j \in queue : ExecAsyncBegin(w, j)
    \/ \E w \in Workers : ExecAsyncTask(w)
    \/ \E w \in Workers : ExecAsyncExec(w)
    \/ \E w \in Workers : ExecAsyncEmit(w)

SpecExec == Init /\ [][NextExec]_vars

(* Single agent executions on two workers, with requests arriving while    *)
(* jobs run.  The executor call is cut between the load of the agent row   *)
(* and the commit of the execution.                                        *)
NextExecConc ==
    \/ \E p \in ProjectIds : NewProjectBegin(p, FALSE)
    \/ NewProjectSyncNext
    \/ NewProjectSyncExec
    \/ \E x \in ExecuteInputs : ExecuteAgentSubmit(x[1], x[2], x[3])
    \/ \E w \in ConcWorkers, j \in queue : ExecAsyncStart(w, j)
    \/ \E w \in ConcWorkers : ExecAsyncTask(w)
    \/ \E w \in ConcWorkers : ExecAsyncLoad(w)
    \/ \E w \in ConcWorkers : ExecAsyncStore(w)
    \/ \E w \in ConcWorkers : ExecAsyncEmit(w)

SpecExecConc == Init /\ [][NextExecConc]_vars

----------------------------------------------------------------------------
(* Stage run jobs on two workers, with advance requests arriving while     *)
(* jobs run.  The job is cut between its query for the stage's tasks and   *)
(* the commit of the tasks it creates.                                     *)

(* lines 165-170: the project is loaded and the tasks of the stage are     *)
(* queried                                                                 *)
PipelineLoad(w, j) ==
    /\ ops[w].pc = "idle"
    /\ j \in queue
    /\ j.kind = "pipeline"
    /\ queue' = queue \ {j}
    /\ UNCHANGED <<projects, tasks, faults, nops, agents>>
    /\ IF ~projects[j.p].exists
       THEN Finish(w, [NoRet EXCEPT !.kind = "pipeline", !.p = j.p,
                         !.stage = j.stage, !.outcome = "raised",
                         !.error = "Project not found"])
       ELSE /\ ops' = [ops EXCEPT ![w] =
                         [Start("pipeline", "pp_create", j.p, j.stage)
                            EXCEPT !.todo = TasksOfStageIn(tasks, j.p, j.stage)]]
            /\ ret' = NoRet

(* lines 172-190: the tasks found are used, or one pending task per        *)
(* active agent of the stage is created and committed                      *)
PipelineCreate(w) ==
    LET o == ops[w]
        new == NewTasksFor(o.p, StageAgents(o.stage), o.stage, "pending")
    IN
    /\ o.pc = "pp_create"
    /\ UNCHANGED <<projects, queue, ret, faults, nops, agents>>
    /\ IF o.todo # <<>>
       THEN /\ ops' = [ops EXCEPT ![w].pc = "pp_task"]
            /\ UNCHANGED tasks
       ELSE /\ tasks' = tasks \o new
            /\ ops' = [ops EXCEPT ![w].pc = "pp_task",
                                  ![w].todo = [k \in 1..Len(new) |-> Len(tasks) + k]]

NextConc ==
    \/ \E p \in ProjectIds : NewProjectBegin(p, FALSE)
    \/ NewProjectSyncNext
    \/ NewProjectSyncExec
    \/ \E p \in ProjectIds : AdvanceRequest(p)
    \/ AdvanceAgent
    \/ AdvanceExec
    \/ \E w \in ConcWorkers, j \in queue : PipelineLoad(w, j)
    \/ \E w \in ConcWorkers : PipelineCreate(w)
    \/ \E w \in ConcWorkers : PipelineTask(w)

SpecConc == Init /\ [][NextConc]_vars

----------------------------------------------------------------------------
(* Two projects of one user, created and advanced one request at a time *)

NextProjects ==
    \/ \E p \in AllProjectIds : NewProjectBegin(p, FALSE)
    \/ NewProjectSyncNext
    \/ NewProjectSyncExec
    \/ \E p \in AllProjectIds : AdvanceBegin(p)
    \/ AdvanceAgent
    \/ AdvanceExec

SpecProjects == Init /\ [][NextProjects]_vars

----------------------------------------------------------------------------
(* Properties *)

StageRunKinds == {"new_project", "advance", "pipeline", "auto_run"}

Exists(p) == p \in ProjectIds /\ projects[p].exists

(* thread t ends its handler or job in this step *)
Returns(t) == ops[t].pc # "idle" /\ ops'[t].pc = "idle"

TasksCreated(t) == Len(tasks') - ops[t].ntasks0

CountStatus(res, st) == Cardinality({k \in 1..Len(res) : res[k].status = st})

\* C1: once the stage runs started so far have ended, a project holds at
\* most one task for any (project, agent, stage) triple
C1_OneTaskPerTriple ==
    AllIdle =>
        \A i, j \in TaskIds :
            (/\ i # j
             /\ tasks[i].agent_id # NoAgent
             /\ tasks[i].project_id = tasks[j].project_id
             /\ tasks[i].agent_id = tasks[j].agent_id)
            => tasks[i].stage # tasks[j].stage

\* C2: no step of a stage run changes the status of a task that is
\* completed; in particular no stage run marks a completed task processing
\* and hands it to the executor again
C2_CompletedNotReexecuted ==
    [][\A t \in Threads :
          (ops[t].kind \in StageRunKinds \/ ops'[t].kind \in StageRunKinds)
          => \A i \in TaskIds :
                tasks[i].status = "completed"
                => /\ tasks'[i].status = "completed"
                   /\ ~(ops'[t].cur = i /\ ops[t].cur # i)]_vars

(* a stage run has reached a completed task and passed over it *)
C2_Witness ==
    \E w \in Workers :
        /\ ops[w].kind = "auto_run"
        /\ \E k \in 1..Len(ops[w].results) :
              /\ ops[w].results[k].status = "completed"
              /\ ~ops[w].results[k].executed
        /\ \E i \in TaskIds : tasks[i].stage = ops[w].stage
                              /\ tasks[i].status = "completed"

\* C3: when process_project_pipeline(project, s) returns without raising,
\* project.stage is s and is not below the stage the project had at the call
C3_StageAfterPipeline ==
    [][\A w \in Workers :
          (ops[w].kind = "pipeline" /\ Returns(w) /\ ret'.outcome = "ok")
          => /\ projects'[ops[w].p].stage = ops[w].stage
             /\ projects'[ops[w].p].stage >= ops[w].stage0]_vars

\* C4: whenever no handler or job is running (and none has met a failure),
\* project.status is the value the stage map gives to project.stage, and
\* idea while the stage is 1
C4_StatusFollowsStage ==
    \A p \in ProjectIds :
        (AllIdle /\ projects[p].exists /\ faults = 0)
        => projects[p].status = StageStatus(projects[p].stage, "idea")

\* C5: when a stage run has returned (having met no failure),
\* completion_percentage is 100 * completed / all over the project's tasks
\* (to two decimals), and 0 without a task
C5_ProgressCurrent ==
    (/\ AllIdle
     /\ ret.kind \in StageRunKinds
     /\ ret.outcome = "ok"
     /\ ~ret.async
     /\ faults = 0
     /\ Exists(ret.p))
    => projects[ret.p].completion_percentage = Progress(tasks, ret.p, 0)

C7_PartialFailureIsolated ==
    [][\A w \in Workers :
          (/\ ops[w].kind = "pipeline"
           /\ Returns(w)
           /\ Len(StageAgents(ops[w].stage)) = 3
           /\ Len(TasksOfStageIn(tasks', ops[w].p, ops[w].stage)) = 3)
          => LET mine == {i \in 1..Len(tasks') :
                            /\ tasks'[i].project_id = ops[w].p
                            /\ tasks'[i].stage = ops[w].stage}
             IN
             /\ ret'.outcome = "ok"
             /\ ret'.agents_triggered = Len(ret'.results)
             /\ TasksCreated(w) = 3 => ret'.agents_triggered = 3
             /\ \A i \in mine : tasks'[i].status \in {"completed", "failed"}
             /\ CountStatus(ret'.results, "failed") =
                   Cardinality({i \in mine : tasks'[i].status = "failed"})
             /\ projects'[ops[w].p].stage = ops[w].stage]_vars

\* C8: when auto-run starts on a project at stage 1 and a stage-level
\* exception is raised at the head of stage 3, the result list is stage 1
\* completed, stage 2 completed, stage 3 failed, and no task of stages 4 to
\* 6 exists
C8_AutoRunAbortAtThree ==
    [][\A w \in Workers :
          (/\ ops[w].kind = "auto_run"
           /\ ops[w].stage0 = 1
           /\ ops[w].pc = "ar_stage"
           /\ ops[w].stage = 3
           /\ Returns(w))
          => /\ [k \in 1..Len(ret'.stages) |->
                   <<ret'.stages[k].stage, ret'.stages[k].status>>]
                  = << <<1, "completed">>, <<2, "completed">>, <<3, "failed">> >>
             /\ \A i \in 1..Len(tasks') : tasks'[i].stage <= 3]_vars

\* C9: advance_project_stage on a project at stage 6 or above returns the
\* final-stage error and changes no project, no task and no queued job
C9_FinalStageGuard ==
    [][\A p \in ProjectIds :
          (/\ ops[Web].pc = "idle"
           /\ Exists(p)
           /\ projects[p].stage >= 6
           /\ \/ ops'[Web].kind = "advance" /\ ops'[Web].p = p
              \/ ret' # ret /\ ret'.kind = "advance" /\ ret'.p = p)
          => /\ ret'.outcome = "error"
             /\ ret'.error = "Project already at final stage"
             /\ UNCHANGED <<projects, tasks, queue>>
             /\ ops'[Web].pc = "idle"]_vars

(* the advance request has been rejected at the final stage *)
C9_Witness ==
    /\ ret.kind = "advance"
    /\ ret.outcome = "error"
    /\ projects[ret.p].stage = 6

LegalEdges ==
    {<<"pending", "processing">>, <<"processing", "completed">>,
     <<"processing", "failed">>}

\* C10: a task is created pending, and a change of its status is one of
\* pending -> processing, processing -> completed, processing -> failed
C10_LegalTransitions ==
    [][\A i \in 1..Len(tasks') :
          IF i > Len(tasks)
          THEN tasks'[i].status = "pending"
          ELSE tasks'[i].status # tasks[i].status
               => <<tasks[i].status, tasks'[i].status>> \in LegalEdges]_vars

\* C11: once no execution of an agent is in flight, the agent's status is
\* neither running nor error, whether the attempt succeeded, reported
\* failure or raised
C11_AgentIdleAfterExecution ==
    AllIdle => \A a \in AgentIds : agents[a].status \notin {"running", "error"}

\* C12: one advance_project_stage call never both submits the stage to the
\* job queue and runs the stage synchronously
C12_FallbackDecidedOnce ==
    ~(/\ ops[Web].kind = "advance"
      /\ ops[Web].queued
      /\ ops[Web].pc \in {"adv_agent", "adv_exec"}
      /\ Job("pipeline", ops[Web].p, ops[Web].stage) \in queue)

\* C13: an advance request on a project below the final stage always hands
\* the caller a success result, never an exception: either async = true
\* with the job queued and no task created or executed by the handler, or
\* async = false after the handler ran the stage itself without queueing it
C13_AdvanceAlwaysReturnsResult ==
    [][(ret' # ret /\ ret'.kind = "advance" /\ ret'.outcome # "error")
       => /\ ret'.outcome = "ok"
          /\ ret'.async
             => /\ ops[Web].pc = "idle"
                /\ Job("pipeline", ret'.p, ret'.stage) \in queue'
                /\ UNCHANGED <<projects, tasks>>
          /\ ~ret'.async
             => /\ ops[Web].pc = "adv_agent"
                /\ ~ops[Web].queued
                /\ projects'[ret'.p].stage = ret'.stage]_vars

\* C14: a call of the event sink never ends the operation that makes it: no
\* stage run job ends with the exception raised by its emit_task_update
\* call, and no advance request ends with an exception of its emits (the
\* only exceptions that leave the synchronous branch)
C14_EmitNeverFailsOperation ==
    /\ ret.kind = "pipeline" => ~(ret.outcome = "raised" /\ ret.error = "TypeError")
    /\ ret.kind = "advance" => ret.outcome # "raised"

AllCompleted(stages) == \A k \in 1..Len(stages) : stages[k].status = "completed"

FirstStage(k) == IF k > 1 THEN k ELSE 1

\* C15: an auto-run on a project at stage k in which no stage raises reports
\* one entry for each stage from max(k,1) to 6 in increasing order, and
\* leaves no agent-bound task of the project pending
C15_AutoRunFromCurrentStage ==
    [][\A w \in Workers :
          (/\ Returns(w)
           /\ ops[w].kind = "auto_run"
           /\ ret'.kind = "auto_run"
           /\ ret'.outcome = "ok"
           /\ AllCompleted(ret'.stages))
          => LET first == FirstStage(ops[w].stage0) IN
             /\ Len(ret'.stages) = LastStage - first + 1
             /\ \A k \in 1..Len(ret'.stages) : ret'.stages[k].stage = first + k - 1
             /\ \A i \in 1..Len(tasks') :
                   (tasks'[i].project_id = ops[w].p /\ tasks'[i].agent_id # NoAgent)
                   => tasks'[i].status # "pending"]_vars

\* C16: an auto-run job on a project below stage 6 in which no agent
\* execution fails and no stage raises ends only after the last stage, with
\* project.stage = 6; it is never ended while it pauses between two stages
C16_AutoRunReachesFinalStage ==
    [][\A w \in Workers :
          (/\ Returns(w)
           /\ ops[w].kind = "auto_run"
           /\ ops[w].stage0 < LastStage
           /\ faults' = 0)
          => /\ ops[w].pc # "ar_sleep"
             /\ projects'[ops[w].p].stage = LastStage]_vars

\* C17: an auto-run that is interrupted while it pauses between two stages
\* processes no further stage, leaves the project and its tasks as the
\* finished stages committed them, and returns the entries collected so far
\* marked partial, with the stage that finished before the pause reported
\* completed and not failed
C17_CancelledInDelayIsPartial ==
    [][\A w \in Workers :
          (Returns(w) /\ ops[w].kind = "auto_run" /\ ops[w].pc = "ar_sleep")
          => /\ UNCHANGED <<projects, tasks>>
             /\ ret'.partial
             /\ ret'.stages = ops[w].stages
             /\ ret'.stages[Len(ret'.stages)].status = "completed"]_vars

(* the tasks with these ids are bound to pairwise different agents *)
OnePerAgent(tt, ids) ==
    \A a, b \in 1..Len(ids) :
        (a # b /\ tt[ids[a]].agent_id # NoAgent)
        => tt[ids[a]].agent_id # tt[ids[b]].agent_id

\* C18: when two workers run the stage run of the same project and stage
\* at the same time and the stage's tasks are those one run holds, a step
\* of the other run leaves at most one task per (project, agent, stage)
\* and changes no task that is completed
C18_ConcurrentRunsIdempotent ==
    [][\A w, v \in ConcWorkers :
          (/\ w # v
           /\ ops[w].kind = "pipeline"
           /\ ops[v].kind = "pipeline"
           /\ ops[w].p = ops[v].p
           /\ ops[w].stage = ops[v].stage
           /\ ops'[w] # ops[w]
           /\ TasksOfStageIn(tasks, ops[w].p, ops[w].stage) = ops[v].todo)
          => /\ OnePerAgent(tasks', TasksOfStageIn(tasks', ops[w].p, ops[w].stage))
             /\ \A i \in TaskIds :
                   tasks[i].status = "completed" => tasks'[i].status = "completed"]_vars

\* C19: the stage of a project is always in 1..6 and no step of a request
\* or of a job, in whatever order they finish, lowers it
C19_StageMonotonic ==
    [][\A p \in ProjectIds :
          Exists(p)
          => /\ projects'[p].stage \in 1..LastStage
             /\ projects'[p].stage >= projects[p].stage]_vars

(* the end of a run of stage s of project p that found no task of the      *)
(* stage and whose agent executions all succeeded: the state both ways of  *)
(* running the stage have to reach                                         *)
StageRunDone(p, s) ==
    LET ids == TasksOfStageIn(tasks', p, s) IN
    /\ projects'[p].stage = s
    /\ projects'[p].status = StageStatus(s, projects[p].status)
    /\ projects'[p].completion_percentage =
          Progress(tasks', p, projects[p].completion_percentage)
    /\ Len(ids) = Len(StageAgents(s))
    /\ \A k \in 1..Len(ids) :
          /\ tasks'[ids[k]].agent_id = StageAgents(s)[k]
          /\ tasks'[ids[k]].status = "completed"

\* C20: the queued stage run and the synchronous branch of the advance
\* request are the same stage run: started on a project at stage k with no
\* task of stage k+1 and with every agent execution succeeding, either one
\* ends with the project at stage k+1 with the stage's status, the
\* percentage of the task rows, and one completed task per agent
C20_QueuedRunEqualsFallback ==
    [][\A t \in Threads :
          (/\ Returns(t)
           /\ ops[t].kind \in {"pipeline", "advance"}
           /\ ops[t].stage = ops[t].stage0 + 1
           /\ faults' = 0
           /\ \A i \in 1..ops[t].ntasks0 :
                 ~(tasks[i].project_id = ops[t].p /\ tasks[i].stage = ops[t].stage))
          => StageRunDone(ops[t].p, ops[t].stage)]_vars

\* C21: a task that an aborted run left in processing is recoverable: a
\* start_pending_tasks request made while nothing else runs, on a project
\* with no pending task, does not end at once and leave a task of the
\* project in processing
C21_ProcessingIsRetried ==
    [][(/\ AllIdle
        /\ nops' # nops
        /\ ops'[Web].pc = "idle"
        /\ ret'.kind = "start_tasks"
        /\ \A i \in TaskIds :
              tasks[i].project_id = ret'.p => tasks[i].status # "pending")
       => \A i \in TaskIds :
             tasks[i].project_id = ret'.p => tasks'[i].status # "processing"]_vars

\* C22: while a run of stage s that started below s still has a task of
\* the stage to create or to execute, the project is not yet at stage s
C22_StageSetAfterTasks ==
    \A t \in Threads :
        (/\ ops[t].kind \in {"advance", "auto_run", "pipeline"}
         /\ ops[t].pc # "idle"
         /\ ops[t].stage0 < ops[t].stage
         /\ ops[t].todo # <<>>)
        => projects[ops[t].p].stage # ops[t].stage

(* thread t ends a run of its stage in this step: the queued stage run     *)
(* returns normally, or auto-run has gone through the stage's tasks        *)
StageRunFinishes(t) ==
    \/ ops[t].kind = "pipeline" /\ Returns(t) /\ ret'.outcome = "ok"
    \/ /\ ops[t].kind = "auto_run"
       /\ ops[t].pc = "ar_task"
       /\ ops'[t].pc \in {"ar_sleep", "idle"}

\* C23: when a stage run of stage s finishes, every active agent of stage
\* s has a task for (project, agent, s), also when only some of those
\* tasks existed before the run
C23_EveryStageAgentHasTask ==
    [][\A t \in Threads :
          StageRunFinishes(t)
          => \A k \in 1..Len(StageAgents(ops[t].stage)) :
                \E i \in 1..Len(tasks') :
                    /\ tasks'[i].project_id = ops[t].p
                    /\ tasks'[i].stage = ops[t].stage
                    /\ tasks'[i].agent_id = StageAgents(ops[t].stage)[k]]_vars

\* C24: a task carries an error message only once it has left pending for
\* failed, and the message is at most 500 characters long, whichever
\* handler or job recorded the failure
C24_ErrorMessageBounded ==
    \A i \in TaskIds :
        tasks[i].error_message # 0
        => /\ tasks[i].status # "pending"
           /\ tasks[i].error_message <= ErrMax

\* C25: every task that is processing, completed or failed has started_at
\* set, and every completed task has completed_at set, whichever handler
\* or job drove it
C25_TimestampsSet ==
    \A i \in TaskIds :
        /\ tasks[i].status \in {"processing", "completed", "failed"}
           => tasks[i].started_at
        /\ tasks[i].status = "completed" => tasks[i].completed_at

\* C26: for every agent, total_executions equals the number of its
\* AgentExecution rows, after any interleaving of executions
C26_ExecutionsCounted ==
    \A a \in AgentIds : agents[a].total_executions = agents[a].executions

(* task i enters processing in this step: it is set processing, or it is   *)
(* created processing                                                      *)
EntersProcessing(i) ==
    /\ tasks'[i].status = "processing"
    /\ i > Len(tasks) \/ tasks[i].status # "processing"

(* task j is one of the tasks the run of thread t goes through: a task of  *)
(* the synchronous advance is one it created, a task of the other runs is  *)
(* any task of the project and stage                                       *)
TaskOfRun(t, j) == ops[t].kind = "advance" => j > ops[t].ntasks0

\* C27: within a stage run a task enters processing only after every task
\* of the run created before it for the same project and stage, and bound
\* to an agent, is completed or failed: the run executes its tasks one at
\* a time in creation order
C27_OneTaskAtATime ==
    [][\A t \in Threads :
          (ops[t].kind \in StageRunKinds /\ ops[t].pc # "idle")
          => \A i \in 1..Len(tasks') :
                EntersProcessing(i)
                => \A j \in 1..(i - 1) :
                      (/\ TaskOfRun(t, j)
                       /\ tasks'[j].project_id = tasks'[i].project_id
                       /\ tasks'[j].stage = tasks'[i].stage
                       /\ tasks'[j].agent_id # NoAgent)
                      => tasks'[j].status \in {"completed", "failed"}]_vars

(* a stage run has driven the first task of its stage to the end and has   *)
(* set the next one processing                                             *)
C27_Witness ==
    \E t \in Threads :
        /\ ops[t].kind \in StageRunKinds
        /\ ops[t].cur > 1
        /\ tasks[ops[t].cur].status = "processing"
        /\ tasks[ops[t].cur - 1].stage = tasks[ops[t].cur].stage
        /\ tasks[ops[t].cur - 1].status \in {"completed", "failed"}

\* C28: a queued stage run that has loaded its project is not aborted by
\* what happens while a task is executed: it returns normally with the
\* project's stage updated and every agent-bound task of the stage
\* completed or failed
C28_StageRunNotAborted ==
    [][\A w \in Workers :
          (Returns(w) /\ ops[w].kind = "pipeline")
          => /\ ret'.outcome = "ok"
             /\ projects'[ops[w].p].stage = ops[w].stage
             /\ \A i \in 1..Len(tasks') :
                   (/\ tasks'[i].project_id = ops[w].p
                    /\ tasks'[i].stage = ops[w].stage
                    /\ tasks'[i].agent_id # NoAgent)
                   => tasks'[i].status \in {"completed", "failed"}]_vars

\* C29: the synchronous path of an advance request on a project at stage k
\* runs exactly stage k+1: every task it creates or changes is a task of
\* that project with stage k+1, no other project is changed, and when it
\* ends the project's stage is k+1
C29_AdvanceRunsNextStageOnly ==
    [][(ops'[Web].kind = "advance" \/ ops[Web].kind = "advance")
       => LET o == IF ops[Web].kind = "advance" THEN ops[Web] ELSE ops'[Web] IN
          /\ \A i \in 1..Len(tasks') :
                (i > Len(tasks) \/ tasks'[i] # tasks[i])
                => /\ tasks'[i].project_id = o.p
                   /\ tasks'[i].stage = o.stage0 + 1
          /\ Len(tasks') >= Len(tasks)
          /\ \A q \in AllProjectIds \ {o.p} : projects'[q] = projects[q]
          /\ projects'[o.p].stage = o.stage0 + 1]_vars

(* the synchronous path has run a stage of one project while the other     *)
(* project and tasks of an earlier stage exist                             *)
C29_Witness ==
    /\ ret.kind = "advance"
    /\ ret.outcome = "ok"
    /\ ~ret.async
    /\ \A q \in AllProjectIds : projects[q].exists
    /\ \E i, j \in TaskIds :
          /\ tasks[i].project_id = ret.p
          /\ tasks[i].stage = ret.stage
          /\ tasks[i].status = "completed"
          /\ tasks[j].project_id = ret.p
          /\ tasks[j].stage < ret.stage

(* the tasks of stage s of project p that are bound to an agent *)
BoundTasks(tt, p, s) ==
    {i \in 1..Len(tt) : /\ tt[i].project_id = p
                        /\ tt[i].stage = s
                        /\ tt[i].agent_id # NoAgent}

\* C30: a stage run that finishes reports one outcome entry for every task
\* of the stage that is bound to an agent, a task it passed over as
\* completed included, in the queued stage run as in auto-run
C30_EveryBoundTaskReported ==
    [][\A t \in Threads :
          StageRunFinishes(t)
          => LET n == Cardinality(BoundTasks(tasks', ops[t].p, ops[t].stage)) IN
             IF ops[t].kind = "pipeline"
             THEN ret'.agents_triggered = n /\ Len(ret'.results) = n
             ELSE Len(ops[t].results) = n]_vars

====
